---- MODULE Spec2Model ----
(***************************************************************************)
(* Zoom attendance counter: the desktop program (zoom_attendance.py, a     *)
(* Tk application) and the web program (app.py, a Streamlit script).       *)
(* Both keep a ledger  name -> list of timestamps  (attendance_data), fill *)
(* it from the names an external service reads off a screenshot, show it   *)
(* as a table sorted by name and export it as CSV rows.                    *)
(*                                                                         *)
(* Text is modelled as a sequence of code points, so that str.strip,       *)
(* str.split, len, the ordering used by sorted() and "; ".join are         *)
(* computed on characters as Python computes them.                         *)
(***************************************************************************)
EXTENDS Integers, Sequences, FiniteSets, TLC

(* ---------------------------- bounds ---------------------------------- *)
\* capture-and-merge cycles started in one run
MaxCycles == 2
\* wall-clock seconds that pass in one run
MaxClock == 1
\* number of lines of the raw text handed to the normalizer on its own
MaxLines == 3

(* ------------------------ program constants --------------------------- *)
\* '\n', the separator of text.split('\n')
NL == 10
\* ' ', the whitespace str.strip() removes
SP == 32
\* len(name) >= 2
MinNameLen == 2
\* x2 - x1 < 10 or y2 - y1 < 10
MinRegionSize == 10

\* Python's None, where the value is otherwise a tuple or a list
None == <<>>

(* ----------------------------- text ----------------------------------- *)
IsSpace(c) == c = SP \/ c = NL

RECURSIVE LStrip(_)
LStrip(s) ==
    IF s # <<>> /\ IsSpace(Head(s)) THEN LStrip(Tail(s)) ELSE s

RECURSIVE RStrip(_)
RStrip(s) ==
    IF s # <<>> /\ IsSpace(s[Len(s)])
    THEN RStrip(SubSeq(s, 1, Len(s) - 1))
    ELSE s

\* lstrip() in place of strip()
StripLeftOnly(s) == LStrip(s)

\* str.strip()
Strip(s) == RStrip(LStrip(s))

\* str.split('\n'): always at least one piece, pieces may be empty
RECURSIVE SplitLines(_, _)
SplitLines(s, cur) ==
    IF s = <<>> THEN <<cur>>
    ELSE IF Head(s) = NL THEN <<cur>> \o SplitLines(Tail(s), <<>>)
    ELSE SplitLines(Tail(s), Append(cur, Head(s)))

\* [line.strip() for line in text.split('\n') if line.strip()]
RECURSIVE StrippedNonEmpty(_)
StrippedNonEmpty(lines) ==
    IF lines = <<>> THEN <<>>
    ELSE IF Strip(Head(lines)) # <<>>
         THEN <<Strip(Head(lines))>> \o StrippedNonEmpty(Tail(lines))
         ELSE StrippedNonEmpty(Tail(lines))

\* the seen/unique_names loop: keep first occurrences of length >= 2
RECURSIVE UniqueNames(_, _, _)
UniqueNames(cands, seen, acc) ==
    IF cands = <<>> THEN acc
    ELSE LET name == Head(cands) IN
         IF name # <<>> /\ name \notin seen /\ Len(name) >= MinNameLen
         THEN UniqueNames(Tail(cands), seen \cup {name}, Append(acc, name))
         ELSE UniqueNames(Tail(cands), seen, acc)

\* the text post-processing of extract_names_with_openai
ExtractNames(content) ==
    UniqueNames(StrippedNonEmpty(SplitLines(Strip(content), <<>>)), {}, <<>>)

\* Python's ordering of str: lexicographic on code points
RECURSIVE StrLess(_, _)
StrLess(a, b) ==
    IF b = <<>> THEN FALSE
    ELSE IF a = <<>> THEN TRUE
    ELSE IF Head(a) # Head(b) THEN Head(a) < Head(b)
    ELSE StrLess(Tail(a), Tail(b))

Digit(n) == 48 + (n % 10)

\* datetime.now().strftime("%Y-%m-%d %H:%M:%S") of the c-th second of the run
\* (the run starts at 2025-01-01 00:00:00 and lasts less than an hour)
Strftime(c) ==
    <<50, 48, 50, 53, 45, 48, 49, 45, 48, 49, SP, 48, 48, 58,
      Digit((c \div 60) \div 10), Digit(c \div 60), 58,
      Digit((c % 60) \div 10), Digit(c % 60)>>

\* "; ".join(times)
RECURSIVE JoinTimes(_)
JoinTimes(times) ==
    IF times = <<>> THEN <<>>
    ELSE IF Len(times) = 1 THEN Head(times)
    ELSE Head(times) \o <<59, SP>> \o JoinTimes(Tail(times))

(* ----------------------------- state ---------------------------------- *)
VARIABLES
    app,              \* which program runs: "desktop" or "web"
    client,           \* an API key is configured (desktop) / entered (web)
    attendance_data,  \* the dict, in insertion order: <<[name, times], ...>>
    capture_region,   \* desktop: the stored region, or None
    recapture_btn,    \* desktop: "disabled" or "normal"
    withdrawn,        \* desktop: the main window is hidden
    selection_timer,  \* desktop: root.after(200, _start_selection) is pending
    selector,         \* desktop: the overlay: [open, start |-> None or <<x, y>>]
    dialog,           \* desktop: the modal dialog that is open, or "none"
    stack,            \* desktop: the _do_capture calls in progress, innermost first
    uploaded_file,    \* web: a file is in the uploader
    status_var,       \* the status line / the message shown
    tree,             \* the rows of the table on screen
    csv_file,         \* the rows last written to a CSV file, or None
    clock,            \* wall clock, in seconds
    cycles,           \* cycles started so far
    text,             \* normalizer on its own: the raw text
    unique_names      \* normalizer on its own: [done, value |-> its result]

vars == <<app, client, attendance_data, capture_region, recapture_btn, withdrawn,
          selection_timer, selector, dialog, stack, uploaded_file, status_var,
          tree, csv_file, clock, cycles, text, unique_names>>

normVars == <<text, unique_names>>
desktopVars == <<capture_region, recapture_btn, withdrawn, selection_timer,
                 selector, dialog, stack>>

(* ----------------------------- ledger --------------------------------- *)
Keys(data) == {data[i].name : i \in 1..Len(data)}

HasKey(data, name) == \E i \in 1..Len(data) : data[i].name = name

TimesOf(data, name) ==
    LET i == CHOOSE j \in 1..Len(data) : data[j].name = name IN data[i].times

\* the test  name not in attendance_data  that guards new_count += 1
CountsAlways(data, name) == TRUE

CountsAsNew(data, name) == ~HasKey(data, name)

\* if name not in attendance_data: attendance_data[name] = []
EnsureKey(data, name) ==
    IF HasKey(data, name) THEN data
    ELSE Append(data, [name |-> name, times |-> <<>>])

\* the append left in an else branch: a name just created gets no record
AppendVisitElse(data, name, now) ==
    [i \in 1..Len(data) |->
        IF data[i].name = name /\ data[i].times # <<>>
        THEN [name |-> name, times |-> Append(data[i].times, now)]
        ELSE data[i]]

\* the append done only for a name just created
AppendVisitNewOnly(data, name, now) ==
    [i \in 1..Len(data) |->
        IF data[i].name = name /\ data[i].times = <<>>
        THEN [name |-> name, times |-> <<now>>]
        ELSE data[i]]

\* an assignment  = [now]  in place of the append
AppendVisitReset(data, name, now) ==
    [i \in 1..Len(data) |->
        IF data[i].name = name
        THEN [name |-> name, times |-> <<now>>]
        ELSE data[i]]

\* attendance_data[name].append(now)
AppendVisit(data, name, now) ==
    [i \in 1..Len(data) |->
        IF data[i].name = name
        THEN [name |-> name, times |-> Append(data[i].times, now)]
        ELSE data[i]]

\* the loop  for name in names: ...  giving <<attendance_data, new_count>>
RECURSIVE Merge(_, _, _)
Merge(data, ns, now) ==
    IF ns = <<>> THEN <<data, 0>>
    ELSE LET name == Head(ns)
             isNew == CountsAsNew(data, name)
             rest == Merge(AppendVisit(EnsureKey(data, name), name, now),
                           Tail(ns), now)
         IN <<rest[1], rest[2] + (IF isNew THEN 1 ELSE 0)>>

\* insertion of one item into a list sorted by name
RECURSIVE InsertSorted(_, _)
InsertSorted(item, sorted) ==
    IF sorted = <<>> THEN <<item>>
    ELSE IF StrLess(item.name, Head(sorted).name)
         THEN <<item>> \o sorted
         ELSE <<Head(sorted)>> \o InsertSorted(item, Tail(sorted))

\* the items in insertion order, sorted() forgotten
UnsortedItems(data) == data

\* sorted(attendance_data.items())
RECURSIVE SortedItems(_)
SortedItems(data) ==
    IF data = <<>> THEN <<>>
    ELSE InsertSorted(Head(data), SortedItems(Tail(data)))

\* the rows of the table: (name, first_time, count)
TableRows(data) ==
    LET s == SortedItems(data) IN
    [i \in 1..Len(s) |->
        [name |-> s[i].name,
         first_time |-> IF s[i].times # <<>> THEN s[i].times[1] ELSE <<>>,
         count |-> Len(s[i].times)]]

\* the rows of the export: (name, first_time, count, all_times)
CsvRows(data) ==
    LET s == SortedItems(data) IN
    [i \in 1..Len(s) |->
        [name |-> s[i].name,
         first_time |-> IF s[i].times # <<>> THEN s[i].times[1] ELSE <<>>,
         count |-> Len(s[i].times),
         all_times |-> JoinTimes(s[i].times)]]

(* ----------------------------- inputs --------------------------------- *)
Al == <<65, 108>>
Bo == <<66, 111>>
Cy == <<67, 121>>

\* what the service may answer (message.content)
Responses ==
    { Al \o <<NL>> \o Bo,
      Cy \o <<NL, SP>> \o Al \o <<SP, NL>> \o Cy \o <<NL>>,
      <<120, NL, NL, SP>> }

\* the outcomes of a request: the content of the answer, or an exception
Answers == {<<"ok", r>> : r \in Responses} \cup {<<"error", <<>>>>}

\* where the mouse can be pressed and released on the overlay
XCoords == {0, 9, 10}
YCoords == {0, 10}

(* ------------------------------ Init ---------------------------------- *)
Status(kind) == [kind |-> kind]

Closed == [open |-> FALSE, start |-> None]

NotRun == [done |-> FALSE, value |-> <<>>]

Init ==
    /\ app \in {"desktop", "web"}
    /\ client \in BOOLEAN
    /\ attendance_data = <<>>
    /\ capture_region = None
    /\ recapture_btn = "disabled"
    /\ withdrawn = FALSE
    /\ selection_timer = FALSE
    /\ selector = Closed
    /\ dialog = "none"
    /\ stack = <<>>
    /\ uploaded_file = FALSE
    /\ status_var = Status("initial")
    /\ tree = <<>>
    /\ csv_file = None
    /\ clock = 0
    /\ cycles = 0
    /\ text = <<>>
    /\ unique_names = NotRun

\* the wall clock advances
Tick ==
    /\ clock < MaxClock
    /\ clock' = clock + 1
    /\ UNCHANGED <<app, client, attendance_data, capture_region, recapture_btn,
                   withdrawn, selection_timer, selector, dialog, stack,
                   uploaded_file, status_var, tree, csv_file, cycles, text,
                   unique_names>>

(* ------------------- desktop: zoom_attendance.py ---------------------- *)
\* _update_list: the table is rebuilt from the dict
UpdateList(data) == TableRows(data)

Detected(ns, new_count, now) ==
    [kind |-> "detected", n |-> Len(ns), new |-> new_count, now |-> now]

\* _do_capture up to its first root.update(): the status is set and the call
\* waits in update(), where pending events are dispatched.  The frame keeps
\* the dict as it was when the cycle began.
do_capture(region) ==
    /\ cycles < MaxCycles
    /\ cycles' = cycles + 1
    /\ status_var' = Status("capturing")
    /\ stack' = <<[pc |-> "update1", region |-> region,
                   before |-> attendance_data]>> \o stack

\* _on_region_selected, the callback of the overlay
on_region_selected(region) ==
    /\ withdrawn' = FALSE
    /\ IF region = None
       THEN /\ status_var' = Status("cancelled")
            /\ UNCHANGED <<capture_region, recapture_btn, stack, cycles>>
       ELSE /\ capture_region' = region
            /\ recapture_btn' = "normal"
            /\ do_capture(region)

\* the capture button
select_and_capture ==
    /\ app = "desktop"
    /\ dialog = "none"
    /\ ~withdrawn
    /\ IF ~client
       THEN UNCHANGED <<withdrawn, selection_timer>>
       ELSE /\ withdrawn' = TRUE
            /\ selection_timer' = TRUE
    /\ UNCHANGED <<app, client, attendance_data, capture_region, recapture_btn,
                   selector, dialog, stack, uploaded_file, status_var, tree,
                   csv_file, clock, cycles, text, unique_names>>

\* the timer set by select_and_capture fires: the overlay opens
start_selection ==
    /\ app = "desktop"
    /\ dialog = "none"
    /\ selection_timer
    /\ selection_timer' = FALSE
    /\ selector' = [open |-> TRUE, start |-> None]
    /\ UNCHANGED <<app, client, attendance_data, capture_region, recapture_btn,
                   withdrawn, dialog, stack, uploaded_file, status_var, tree,
                   csv_file, clock, cycles, text, unique_names>>

\* ScreenSelector.on_press
on_press(x, y) ==
    /\ app = "desktop"
    /\ dialog = "none"
    /\ selector.open
    /\ selector' = [open |-> TRUE, start |-> <<x, y>>]
    /\ UNCHANGED <<app, client, attendance_data, capture_region, recapture_btn,
                   withdrawn, selection_timer, dialog, stack, uploaded_file,
                   status_var, tree, csv_file, clock, cycles, text,
                   unique_names>>

Min(a, b) == IF a < b THEN a ELSE b
Max(a, b) == IF a < b THEN b ELSE a

\* the check with  and  in place of  or
TooSmallBoth(x1, y1, x2, y2) ==
    x2 - x1 < MinRegionSize /\ y2 - y1 < MinRegionSize

\* the minimum size check of on_release
TooSmall(x1, y1, x2, y2) ==
    x2 - x1 < MinRegionSize \/ y2 - y1 < MinRegionSize

\* ScreenSelector.on_release
on_release(x, y) ==
    /\ app = "desktop"
    /\ dialog = "none"
    /\ selector.open
    /\ IF selector.start = None
       THEN UNCHANGED <<selector, withdrawn, status_var, capture_region,
                        recapture_btn, stack, cycles>>
       ELSE LET x1 == Min(selector.start[1], x)
                y1 == Min(selector.start[2], y)
                x2 == Max(selector.start[1], x)
                y2 == Max(selector.start[2], y)
            IN /\ selector' = Closed
               /\ IF TooSmall(x1, y1, x2, y2)
                  THEN on_region_selected(None)
                  ELSE on_region_selected(<<x1, y1, x2, y2>>)
    /\ UNCHANGED <<app, client, attendance_data, selection_timer,
                   uploaded_file, tree, csv_file, clock, text, unique_names,
                   dialog>>

\* ScreenSelector.cancel, bound to Escape
cancel ==
    /\ app = "desktop"
    /\ dialog = "none"
    /\ selector.open
    /\ selector' = Closed
    /\ on_region_selected(None)
    /\ UNCHANGED <<app, client, attendance_data, selection_timer,
                   uploaded_file, tree, csv_file, clock, text, unique_names,
                   dialog>>

\* the recapture button
recapture ==
    /\ app = "desktop"
    /\ dialog = "none"
    /\ ~withdrawn
    /\ IF client /\ capture_region # None
       THEN do_capture(capture_region)
       ELSE UNCHANGED <<stack, cycles, status_var>>
    /\ UNCHANGED <<app, client, attendance_data, capture_region, recapture_btn,
                   withdrawn, selection_timer, selector, dialog, uploaded_file,
                   tree, csv_file, clock, text, unique_names>>

\* _do_capture from its first root.update() to its second: the screen is
\* grabbed and encoded; grabbed = FALSE is ImageGrab raising
capture_grab(grabbed) ==
    /\ app = "desktop"
    /\ dialog = "none"
    /\ stack # <<>>
    /\ Head(stack).pc = "update1"
    /\ IF grabbed
       THEN /\ status_var' = Status("analysing")
            /\ stack' = <<[Head(stack) EXCEPT !.pc = "update2"]>> \o Tail(stack)
       ELSE /\ status_var' = Status("error")
            /\ stack' = Tail(stack)
    /\ UNCHANGED <<app, client, attendance_data, capture_region, recapture_btn,
                   withdrawn, selection_timer, selector, dialog, uploaded_file,
                   tree, csv_file, clock, cycles, text, unique_names>>

\* _do_capture from its second root.update() to its end: the service is
\* asked (answer[1] = "error" is the request raising), the names are merged,
\* the table is rebuilt
capture_extract(answer) ==
    /\ app = "desktop"
    /\ dialog = "none"
    /\ stack # <<>>
    /\ Head(stack).pc = "update2"
    /\ stack' = Tail(stack)
    /\ IF answer[1] = "error"
       THEN /\ status_var' = Status("error")
            /\ UNCHANGED <<attendance_data, tree>>
       ELSE LET ns == ExtractNames(answer[2])
                now == Strftime(clock)
                m == Merge(attendance_data, ns, now)
            IN IF ns = <<>>
                  THEN /\ status_var' = Status("none_detected")
                       /\ UNCHANGED <<attendance_data, tree>>
                  ELSE /\ attendance_data' = m[1]
                       /\ tree' = UpdateList(m[1])
                       /\ status_var' = Detected(ns, m[2], now)
    /\ UNCHANGED <<app, client, capture_region, recapture_btn, withdrawn,
                   selection_timer, selector, dialog, uploaded_file, csv_file,
                   clock, cycles, text, unique_names>>

\* the clear button: nothing to clear, or the confirmation dialog opens.
\* The dialog is modal: until it is answered no button is served and the
\* calls below it on the stack do not proceed.
clear_data ==
    /\ app = "desktop"
    /\ dialog = "none"
    /\ ~withdrawn
    /\ dialog' = IF attendance_data # <<>> THEN "confirm_clear" ELSE "none"
    /\ UNCHANGED <<app, client, attendance_data, capture_region, recapture_btn,
                   withdrawn, selection_timer, selector, stack, uploaded_file,
                   status_var, tree, csv_file, clock, cycles, text,
                   unique_names>>

\* the table is emptied, the dict is not
confirm_clear_table_only(yes) ==
    /\ app = "desktop"
    /\ dialog = "confirm_clear"
    /\ dialog' = "none"
    /\ IF yes
       THEN /\ tree' = <<>>
            /\ status_var' = Status("cleared")
            /\ UNCHANGED attendance_data
       ELSE UNCHANGED <<attendance_data, tree, status_var>>
    /\ UNCHANGED <<app, client, capture_region, recapture_btn, withdrawn,
                   selection_timer, selector, stack, uploaded_file, csv_file,
                   clock, cycles, text, unique_names>>

\* clear_data after askyesno returns; yes is the user's answer
confirm_clear(yes) ==
    /\ app = "desktop"
    /\ dialog = "confirm_clear"
    /\ dialog' = "none"
    /\ IF yes
       THEN /\ attendance_data' = <<>>
            /\ tree' = UpdateList(<<>>)
            /\ status_var' = Status("cleared")
       ELSE UNCHANGED <<attendance_data, tree, status_var>>
    /\ UNCHANGED <<app, client, capture_region, recapture_btn, withdrawn,
                   selection_timer, selector, stack, uploaded_file, csv_file,
                   clock, cycles, text, unique_names>>

\* the export button; chosen: a path came back from the save dialog,
\* written: the file could be opened and written
export_csv(chosen, written) ==
    /\ app = "desktop"
    /\ dialog = "none"
    /\ ~withdrawn
    /\ IF attendance_data # <<>> /\ chosen /\ written
       THEN /\ csv_file' = CsvRows(attendance_data)
            /\ status_var' = Status("exported")
       ELSE UNCHANGED <<csv_file, status_var>>
    /\ UNCHANGED <<app, client, attendance_data, capture_region, recapture_btn,
                   withdrawn, selection_timer, selector, dialog, stack,
                   uploaded_file, tree, clock, cycles, text, unique_names>>

(* --------------------------- web: app.py ------------------------------ *)
\* the table drawn at the end of a script run (nothing without an API key)
Render(key, data) == IF key THEN TableRows(data) ELSE <<>>

\* the API key field of the sidebar is edited; the script reruns
web_set_api_key(key) ==
    /\ app = "web"
    /\ client' = key
    /\ tree' = Render(key, attendance_data)
    /\ status_var' = Status("idle")
    /\ UNCHANGED <<app, attendance_data, uploaded_file, csv_file, clock,
                   cycles>>
    /\ UNCHANGED desktopVars
    /\ UNCHANGED normVars

\* a file is put into (or taken out of) the uploader; the script reruns
web_upload(present) ==
    /\ app = "web"
    /\ client
    /\ uploaded_file' = present
    /\ tree' = Render(client, attendance_data)
    /\ status_var' = Status("idle")
    /\ UNCHANGED <<app, client, attendance_data, csv_file, clock, cycles>>
    /\ UNCHANGED desktopVars
    /\ UNCHANGED normVars

\* the analyse button
web_analyse(answer) ==
    /\ app = "web"
    /\ client
    /\ uploaded_file
    /\ cycles < MaxCycles
    /\ cycles' = cycles + 1
    /\ IF answer[1] = "error"
       THEN /\ status_var' = Status("error")
            /\ UNCHANGED attendance_data
       ELSE LET ns == ExtractNames(answer[2])
                now == Strftime(clock)
                m == Merge(attendance_data, ns, now)
            IN IF ns # <<>>
                  THEN /\ attendance_data' = m[1]
                       /\ status_var' = [kind |-> "detected", n |-> Len(ns),
                                         new |-> m[2]]
                  ELSE /\ status_var' = Status("none_detected")
                       /\ UNCHANGED attendance_data
    /\ tree' = Render(client, attendance_data')
    /\ UNCHANGED <<app, client, uploaded_file, csv_file, clock>>
    /\ UNCHANGED desktopVars
    /\ UNCHANGED normVars

\* the clear button, drawn only under a non-empty table
web_clear ==
    /\ app = "web"
    /\ client
    /\ attendance_data # <<>>
    /\ attendance_data' = <<>>
    /\ tree' = Render(client, <<>>)
    /\ status_var' = Status("idle")
    /\ UNCHANGED <<app, client, uploaded_file, csv_file, clock, cycles>>
    /\ UNCHANGED desktopVars
    /\ UNCHANGED normVars

\* the download button, drawn only under a non-empty table
web_download ==
    /\ app = "web"
    /\ client
    /\ attendance_data # <<>>
    /\ csv_file' = CsvRows(attendance_data)
    /\ tree' = Render(client, attendance_data)
    /\ status_var' = Status("idle")
    /\ UNCHANGED <<app, client, attendance_data, uploaded_file, clock, cycles>>
    /\ UNCHANGED desktopVars
    /\ UNCHANGED normVars

(* --------------------------- specification ---------------------------- *)
Next ==
    \/ Tick
    \/ select_and_capture
    \/ start_selection
    \/ \E x \in XCoords, y \in YCoords : on_press(x, y)
    \/ \E x \in XCoords, y \in YCoords : on_release(x, y)
    \/ cancel
    \/ recapture
    \/ \E grabbed \in BOOLEAN : capture_grab(grabbed)
    \/ \E answer \in Answers : capture_extract(answer)
    \/ clear_data
    \/ \E yes \in BOOLEAN : confirm_clear(yes)
    \/ \E chosen \in BOOLEAN, written \in BOOLEAN : export_csv(chosen, written)
    \/ \E key \in BOOLEAN : web_set_api_key(key)
    \/ \E present \in BOOLEAN : web_upload(present)
    \/ \E answer \in Answers : web_analyse(answer)
    \/ web_clear
    \/ web_download

Spec == Init /\ [][Next]_vars

(* ---------------------- the normalizer on its own --------------------- *)
\* lines a raw text is made of
LineSet ==
    { <<>>, <<SP>>, <<65>>, <<65, 65>>, <<SP, 65, 66>>, <<65, 66, SP>>,
      <<65, SP, 66>> }

RECURSIVE JoinLines(_)
JoinLines(lines) ==
    IF lines = <<>> THEN <<>>
    ELSE IF Len(lines) = 1 THEN Head(lines)
    ELSE Head(lines) \o <<NL>> \o JoinLines(Tail(lines))

Texts ==
    UNION { {JoinLines(ls) : ls \in [1..n -> LineSet]} : n \in 1..MaxLines }

InitNorm ==
    /\ app = "normalizer"
    /\ client = FALSE
    /\ attendance_data = <<>>
    /\ capture_region = None
    /\ recapture_btn = "disabled"
    /\ withdrawn = FALSE
    /\ selection_timer = FALSE
    /\ selector = Closed
    /\ dialog = "none"
    /\ stack = <<>>
    /\ uploaded_file = FALSE
    /\ status_var = Status("initial")
    /\ tree = <<>>
    /\ csv_file = None
    /\ clock = 0
    /\ cycles = 0
    /\ text \in Texts
    /\ unique_names = NotRun

\* the service's answer is post-processed
normalize ==
    /\ ~unique_names.done
    /\ unique_names' = [done |-> TRUE, value |-> ExtractNames(text)]
    /\ UNCHANGED <<app, client, attendance_data, capture_region, recapture_btn,
                   withdrawn, selection_timer, selector, dialog, stack,
                   uploaded_file, status_var, tree, csv_file, clock, cycles,
                   text>>

NextNorm == normalize

SpecNorm == InitNorm /\ [][NextNorm]_vars

(* ------------------------------ claims -------------------------------- *)
IsPrefix(a, b) == Len(a) <= Len(b) /\ SubSeq(b, 1, Len(a)) = a

VisitsOf(data, name) == IF HasKey(data, name) THEN TimesOf(data, name) ELSE <<>>

SeqToSet(q) == {q[i] : i \in 1..Len(q)}

\* the answer is text with at least one name in it
Fruitful(answer) == answer[1] = "ok" /\ ExtractNames(answer[2]) # <<>>

\* the step is the end of a cycle that asked the service with this answer
CycleEnds(answer) == capture_extract(answer) \/ web_analyse(answer)

\* the clear the user asked for is over, whatever was answered to the
\* confirmation
ClearStep == (\E yes \in BOOLEAN : confirm_clear(yes)) \/ web_clear

\* C1: a cycle whose request raises, or whose answer holds no name, ends with
\* the dict as it was when the cycle began; and a step changes the dict by
\* one record for every name of a submission, or not at all.
C1_FailedCycleRestoresLedger ==
    [][ /\ \A answer \in Answers :
             /\ (capture_extract(answer) /\ ~Fruitful(answer)) =>
                   attendance_data' = Head(stack).before
             /\ (web_analyse(answer) /\ ~Fruitful(answer)) =>
                   attendance_data' = attendance_data
        /\ \/ attendance_data' = attendance_data
           \/ attendance_data' = <<>>
           \/ \E answer \in Answers :
                 /\ Fruitful(answer)
                 /\ \A name \in SeqToSet(ExtractNames(answer[2])) :
                       Len(VisitsOf(attendance_data', name)) =
                          Len(VisitsOf(attendance_data, name)) + 1
      ]_vars

\* C2: every name of the dict has at least one record.
C2_EveryKeyHasVisit ==
    \A i \in 1..Len(attendance_data) : Len(attendance_data[i].times) >= 1

C2_Witness ==
    /\ Len(attendance_data) >= 2
    /\ \E i \in 1..Len(attendance_data) : Len(attendance_data[i].times) = 2

\* C3: the new count shown after a merge is the number of submitted names
\* that were not in the dict before, and the dict grows by that many names.
C3_NewCountIsNumberOfAbsentNames ==
    [][ \A answer \in Answers :
           (CycleEnds(answer) /\ Fruitful(answer)) =>
              LET ns == ExtractNames(answer[2])
                  absent == {i \in 1..Len(ns) : ~HasKey(attendance_data, ns[i])}
              IN /\ status_var'.kind = "detected"
                 /\ status_var'.n = Len(ns)
                 /\ status_var'.new = Cardinality(absent)
                 /\ Len(attendance_data') =
                       Len(attendance_data) + status_var'.new
                 /\ Cardinality(Keys(attendance_data')) =
                       Cardinality(Keys(attendance_data)) + status_var'.new
      ]_vars

\* the second of two merges found one new name among two
C3_Witness ==
    /\ status_var.kind = "detected"
    /\ status_var.n = 2
    /\ status_var.new = 1
    /\ Len(attendance_data) = 3

\* C4: a merge appends one record, the same for all, to every submitted
\* name, new or not, and leaves every other name as it was.
C4_OneSharedVisitPerName ==
    [][ \A answer \in Answers :
           (CycleEnds(answer) /\ Fruitful(answer)) =>
              LET ns == ExtractNames(answer[2])
                  got == VisitsOf(attendance_data', ns[1])
                  stamp == got[Len(got)]
              IN /\ got # <<>>
                 /\ app = "desktop" => stamp = status_var'.now
                 /\ Keys(attendance_data') =
                       Keys(attendance_data) \cup SeqToSet(ns)
                 /\ \A name \in SeqToSet(ns) :
                       VisitsOf(attendance_data', name) =
                          Append(VisitsOf(attendance_data, name), stamp)
                 /\ \A name \in Keys(attendance_data) \ SeqToSet(ns) :
                       VisitsOf(attendance_data', name) =
                          VisitsOf(attendance_data, name)
      ]_vars

\* the same names were merged twice: two records each, none new
C4_Witness ==
    /\ status_var.kind = "detected"
    /\ status_var.new = 0
    /\ Len(attendance_data) = 2
    /\ \A i \in 1..Len(attendance_data) : Len(attendance_data[i].times) = 2

\* the lines of a text: the maximal stretches without a line break
LineSpans(t) ==
    {sp \in (1..Len(t) + 1) \X (0..Len(t)) :
        /\ sp[2] >= sp[1] - 1
        /\ sp[1] = 1 \/ t[sp[1] - 1] = NL
        /\ sp[2] = Len(t) \/ t[sp[2] + 1] = NL
        /\ \A k \in sp[1]..sp[2] : t[k] # NL}

\* a line without the blanks around it
Trimmed(t, sp) ==
    LET inked == {k \in sp[1]..sp[2] : t[k] # SP} IN
    IF inked = {} THEN <<>>
    ELSE SubSeq(t, CHOOSE a \in inked : \A k \in inked : a <= k,
                   CHOOSE b \in inked : \A k \in inked : b >= k)

\* where a trimmed line first occurs
FirstSeen(t, line) ==
    LET at == {sp[1] : sp \in {x \in LineSpans(t) : Trimmed(t, x) = line}}
    IN CHOOSE a \in at : \A k \in at : a <= k

\* C5: the normalizer's output has no empty line, no line shorter than two
\* characters and no duplicate; every other trimmed line of the input is in
\* it once, in the order of first occurrence.
C5_NormalizerOutput ==
    unique_names.done =>
       LET out == unique_names.value
           kept == {line \in {Trimmed(text, sp) : sp \in LineSpans(text)} :
                       Len(line) >= 2}
       IN /\ \A k \in 1..Len(out) : out[k] # <<>> /\ Len(out[k]) >= 2
          /\ \A k \in 1..Len(out) : \A l \in 1..Len(out) :
                k # l => out[k] # out[l]
          /\ SeqToSet(out) = kept
          /\ \A k \in 1..Len(out) : \A l \in 1..Len(out) :
                k < l => FirstSeen(text, out[k]) < FirstSeen(text, out[l])

\* "AB " / "A" / " AB" / "AA"-like input: a padded line, its duplicate and
\* another name come out as two names in order
C5_Witness ==
    /\ unique_names.done
    /\ text = <<65, 66, SP, NL, SP, 65, 66, NL, 65, 65>>
    /\ unique_names.value = << <<65, 66>>, <<65, 65>> >>

\* the join of fixed-width timestamps: each in its place, "; " between
JoinedAs(all, times) ==
    /\ Len(all) = 19 * Len(times) + 2 * (Len(times) - 1)
    /\ \A k \in 1..Len(times) :
          /\ SubSeq(all, 21 * (k - 1) + 1, 21 * (k - 1) + 19) = times[k]
          /\ k < Len(times) =>
                all[21 * (k - 1) + 20] = 59 /\ all[21 * (k - 1) + 21] = SP

\* C6: the table and the export have one row per name, in ascending order
\* of name whatever the order of insertion, each with the first record, the
\* number of records and (export) all records joined by "; ".
C6_ReportRows ==
    LET rows == CsvRows(attendance_data)
        shown == TableRows(attendance_data)
    IN /\ Len(rows) = Cardinality(Keys(attendance_data))
       /\ Len(shown) = Len(rows)
       /\ {rows[i].name : i \in 1..Len(rows)} = Keys(attendance_data)
       /\ \A i \in 1..Len(rows) : \A j \in 1..Len(rows) :
             i < j => StrLess(rows[i].name, rows[j].name)
       /\ \A i \in 1..Len(rows) :
             LET times == TimesOf(attendance_data, rows[i].name) IN
             /\ rows[i].first_time = times[1]
             /\ rows[i].count = Len(times)
             /\ JoinedAs(rows[i].all_times, times)
             /\ shown[i] = [name |-> rows[i].name, first_time |-> times[1],
                            count |-> Len(times)]
       /\ (app = "desktop" \/ client) => tree = shown

\* names inserted as Cy, Al, Bo
C6_Witness ==
    /\ Len(attendance_data) = 3
    /\ attendance_data[1].name = Cy
    /\ attendance_data[2].name = Al
    /\ attendance_data[3].name = Bo
    /\ Len(attendance_data[2].times) = 2

\* C7 as claimed: whenever the user triggers clear, the dict is empty and
\* the table has no row afterwards.
C7_ClearIsUnconditional ==
    [][ ClearStep => attendance_data' = <<>> /\ tree' = <<>> ]_vars

\* C7 as amended: a clear that the user confirms (desktop: answers yes to
\* the dialog; web: no dialog) leaves the dict empty and an empty report; a
\* clear that the user declines leaves the dict as it was.
C7_ConfirmedClearEmpties ==
    [][ /\ (confirm_clear(TRUE) \/ web_clear) =>
              /\ attendance_data' = <<>>
              /\ tree' = <<>>
              /\ TableRows(attendance_data') = <<>>
              /\ CsvRows(attendance_data') = <<>>
        /\ confirm_clear(FALSE) => attendance_data' = attendance_data
        /\ clear_data => attendance_data' = attendance_data
      ]_vars

C7_Witness ==
    /\ app = "desktop"
    /\ status_var.kind = "cleared"
    /\ attendance_data = <<>>
    /\ tree = <<>>
    /\ cycles >= 1

\* C8: while a cycle is in progress no button handler runs.
C8_NoHandlerDuringCycle ==
    [][ stack # <<>> =>
           ~ \/ recapture
             \/ select_and_capture
             \/ clear_data
             \/ \E chosen \in BOOLEAN, written \in BOOLEAN :
                   export_csv(chosen, written)
      ]_vars

\* C9: a cancelled selection (Escape, or a rectangle under 10 pixels wide
\* or high) hands the callback no region and changes neither the dict, nor
\* the stored region, nor the recapture button, and starts no capture.
C9_CancelledSelectionIsNoOp ==
    [][ \A x \in XCoords, y \in YCoords :
           ( \/ cancel
             \/ /\ on_release(x, y)
                /\ selector.start # None
                /\ LET dx == x - selector.start[1]
                       dy == y - selector.start[2]
                   IN \/ (dx < 10 /\ -dx < 10)
                      \/ (dy < 10 /\ -dy < 10) ) =>
              /\ status_var'.kind = "cancelled"
              /\ UNCHANGED <<attendance_data, capture_region, recapture_btn,
                             stack, cycles, tree, csv_file>>
      ]_vars

\* a selection was cancelled with a region stored and names recorded
C9_Witness ==
    /\ status_var.kind = "cancelled"
    /\ capture_region # None
    /\ recapture_btn = "normal"
    /\ attendance_data # <<>>

\* C10: but for a clear, a step removes no name and only appends to the
\* records of a name (so its first record and its position stay, and its
\* count does not decrease).
C10_AppendOnlyBetweenClears ==
    [][ \/ ClearStep
        \/ /\ Len(attendance_data') >= Len(attendance_data)
           /\ \A i \in 1..Len(attendance_data) :
                 /\ attendance_data'[i].name = attendance_data[i].name
                 /\ IsPrefix(attendance_data[i].times, attendance_data'[i].times)
      ]_vars

\* a name was recorded in two seconds, and exported in between or after
C10_Witness ==
    /\ csv_file # <<>>
    /\ \E i \in 1..Len(attendance_data) :
          /\ Len(attendance_data[i].times) = 2
          /\ attendance_data[i].times[1] # attendance_data[i].times[2]
====
